---- MODULE Spec2Model ----
(***************************************************************************)
(* A model of the query engine of rfushimi/q: the response cache           *)
(* (src/core/cache.rs, a cached::TimedCache behind a Mutex), the retry     *)
(* controller (src/core/retry.rs, a loop around backoff::Exponential-      *)
(* Backoff), QueryEngine::query (src/core/mod.rs), the streaming path      *)
(* (src/core/stream.rs) and the backends' handling of HTTP statuses        *)
(* (src/api/openai.rs, src/api/gemini.rs).                                 *)
(*                                                                         *)
(* Spec follows query in non-streaming mode, one step per call of the      *)
(* operation; SpecStream follows it in streaming mode at the grain of its  *)
(* suspension points and of the cache's lock.  SpecDraw adds the blocking  *)
(* pool's step that starts the draw task query spawns (elsewhere the task  *)
(* stays queued), and SpecSse follows OpenAIClient's stream over the bytes *)
(* of a response body.                                                     *)
(*                                                                         *)
(* Time is a discrete clock `now` counted in ticks; TicksPerSec ticks make *)
(* one second, so that Duration::as_secs (a truncation to whole seconds)   *)
(* is a division that loses something.                                     *)
(***************************************************************************)
EXTENDS Integers, Sequences, FiniteSets, TLC

(* ------------------------------ bounds -------------------------------- *)
\* the clock stops advancing at MaxTime
MaxTime == 7
\* capacities handed to QueryCache::new range over 1..MaxCap
MaxCap == 1

(* ---------------------- resolution and constants ---------------------- *)
\* ticks per second: the resolution Duration::as_secs truncates to
TicksPerSec == 4

\* Prompts are compared as exact strings: case and whitespace variants are
\* different keys of the HashMap.
Keys == {"q", "Q", "q "}
Vals == {"r1", "r2"}
\* Option::None of QueryCache::get
NoneVal == "None"
\* no insert of the key since construction or the last clear
NoTime == -1
\* the insert history is no longer a run of distinct keys
Spoiled == <<NoneVal>>
\* the key has not been inserted
NoEntry == [at |-> NoTime, val |-> NoneVal]

\* Durations a QueryCache is constructed with: 0.5 s, 1 s, 1.5 s
TtlChoices == {TicksPerSec \div 2, TicksPerSec, TicksPerSec + TicksPerSec \div 2}

VARIABLES
  now,         \* the clock (Instant::now), in ticks
  size,        \* QueryCache::new's size argument
  ttl,         \* QueryCache::new's ttl argument, in ticks
  seconds,     \* TimedCache.seconds = ttl.as_secs()
  store,       \* TimedCache.store: key -> (Instant, value)
  lastInsert,  \* history: key -> time and value of its last insert since
               \* construction or the last clear
  insertLog,   \* history: the distinct keys inserted since construction or
               \* the last clear, oldest first (Spoiled once a key repeats)
  max_retries,    \* with_backoff's max_retries / QueryConfig.max_retries
  initial_delay,  \* with_backoff's initial_delay / QueryConfig.retry_delay
  max_delay,      \* with_backoff's max_delay / QueryConfig.max_retry_delay
  checkedSleep,   \* whether the linked backoff crate's next_backoff also tests
                  \* elapsed + interval against max_elapsed_time
  backoff,        \* the ExponentialBackoff: current_interval, start_time
  attempt,        \* with_backoff's local `attempt`
  pc,             \* where the call is: idle, calling, sleeping, done
  caller,         \* who called with_backoff: "direct" or "query"
  prompt,         \* query's prompt argument
  sleepFor,       \* the duration handed to sleep()
  op,             \* the operation: fails `fails` times with `kind`, then
                  \* returns Ok(val)
  invocations,    \* history: how often operation() was called in this call
  delays,         \* history: the durations slept in this call
  before,         \* history: the cache store when query was entered
  queries,        \* history: how many calls of query have been made
  result,         \* what the last call returned
  stream_responses,  \* QueryConfig.stream_responses
  chunks,         \* history: the items of the StreamingResponse the attempt
                  \* in progress was handed by send_streaming_query
  stream,         \* handle_streaming_response's `stream`: the items not yet
                  \* taken by stream.next()
  response,       \* handle_streaming_response's `response`
  err,            \* the error the last call of the operation returned
  lock,           \* QueryCache.cache, the Mutex: "free" or "held"
  inflight,       \* history: the backend calls begun and not yet completed
                  \* or dropped
  draw,           \* the task of the draw loop that the latest query spawned
                  \* on the blocking pool: none, spawned (not yet started),
                  \* drawing or pausing (running, in m2.draw() or in the
                  \* sleep of its loop), or aborted before it started
  http,           \* one HTTP exchange of a backend client: the request's
                  \* backend and method, the response's status and body, and
                  \* what the method returns for it
  wire,           \* history: the bytes of a streamed response body, as the
                  \* server sent them
  unread,         \* the bytes of the body that bytes_stream has not yet yielded
  last,           \* history: the chunk bytes_stream yielded last and what
                  \* process_stream_chunk returned for it
  yielded         \* history: the items the StreamingResponse of
                  \* send_streaming_query has yielded

cacheVars == <<size, ttl, seconds, store, lastInsert, insertLog>>
confVars == <<max_retries, initial_delay, max_delay, checkedSleep, stream_responses>>
streamVars == <<chunks, stream, response, err>>
callVars == <<backoff, attempt, pc, caller, prompt, sleepFor, op, invocations,
              delays, before, queries, result, streamVars, lock, inflight, draw>>
wireVars == <<wire, unread, last, yielded>>
vars == <<now, cacheVars, confVars, callVars, http, wireVars>>

(* ------------------------- cached::TimedCache ------------------------- *)
\* Duration::as_secs: whole seconds, the fraction dropped
as_secs(d) == d \div TicksPerSec

\* cache_get's test `instant.elapsed().as_secs() < self.seconds`
Fresh_LeqMutant(st, k, t) == as_secs(t - st[k].at) <= seconds
Fresh(st, k, t) == as_secs(t - st[k].at) < seconds

\* TimedCache::cache_get: the value of a present, fresh entry; an entry
\* found expired is removed from the store.  Returns <<result, store'>>.
cache_get(st, k, t) ==
  IF k \notin DOMAIN st THEN <<NoneVal, st>>
  ELSE IF Fresh(st, k, t) THEN <<st[k].val, st>>
  ELSE <<NoneVal, [x \in DOMAIN st \ {k} |-> st[x]]>>

\* TimedCache::cache_set: HashMap::insert of (Instant::now(), val); the
\* capacity given at construction only pre-allocates the map.
cache_set(st, k, v, t) ==
  [x \in DOMAIN st \cup {k} |-> IF x = k THEN [val |-> v, at |-> t] ELSE st[x]]

\* TimedCache::cache_size: HashMap::len, expired entries included
cache_size(st) == Cardinality(DOMAIN st)

\* what QueryCache::get(k) returns when called in the current state
GetResult(k) == cache_get(store, k, now)[1]

(* ----------------------------- QueryCache ----------------------------- *)
EmptyStore == [x \in {} |-> [val |-> NoneVal, at |-> 0]]

\* QueryCache::new(size, ttl)
CacheNew(n, d) ==
  /\ size = n
  /\ ttl = d
  /\ seconds = as_secs(d)
  /\ store = EmptyStore
  /\ lastInsert = [k \in Keys |-> NoEntry]
  /\ insertLog = <<>>

\* no call of with_backoff or query is in progress, and none has returned
NoResult == [tag |-> "None", val |-> NoneVal, msg |-> "", attempts |-> 0, cause |-> ""]
NoOp == [fails |-> 0, kind |-> "", val |-> NoneVal]
\* no call of the operation has returned an error
NoErr == [kind |-> "", msg |-> "", at |-> 0]
\* the method of the backend client has not returned
NoReply == [kind |-> "", text |-> ""]
\* no HTTP exchange is in progress
NoHttp == [backend |-> "", method |-> "", status |-> 0, body |-> "", reply |-> NoReply]
\* no chunk has been read
NoRead == [chunk |-> <<>>, out |-> NoReply]
\* no streamed body is being read
NoWire == wire = <<>> /\ unread = <<>> /\ last = NoRead /\ yielded = <<>>
NoCall ==
  /\ backoff = [current_interval |-> 0, start_time |-> 0]
  /\ attempt = 0
  /\ prompt = ""
  /\ sleepFor = 0
  /\ op = NoOp
  /\ invocations = 0
  /\ delays = <<>>
  /\ before = EmptyStore
  /\ queries = 0
  /\ result = NoResult
  /\ chunks = <<>> /\ stream = <<>> /\ response = "" /\ err = NoErr
  /\ lock = "free"
  /\ inflight = 0
  /\ draw = "none"

InitCache ==
  /\ now = 0
  /\ \E n \in 1..MaxCap, d \in TtlChoices : CacheNew(n, d)
  /\ max_retries = 0 /\ initial_delay = 0 /\ max_delay = 0 /\ checkedSleep = FALSE
  /\ stream_responses = FALSE
  /\ pc = "idle" /\ caller = "direct"
  /\ NoCall
  /\ http = NoHttp
  /\ NoWire

\* the insert history after an insert of k
LogInsert(log, k) ==
  IF log = Spoiled \/ (\E i \in 1..Len(log) : log[i] = k) THEN Spoiled
  ELSE Append(log, k)

\* QueryCache::insert(query, response)
Insert(k, v) ==
  /\ store' = cache_set(store, k, v, now)
  /\ lastInsert' = [lastInsert EXCEPT ![k] = [at |-> now, val |-> v]]
  /\ insertLog' = LogInsert(insertLog, k)
  /\ UNCHANGED <<now, size, ttl, seconds, confVars, callVars, http, wireVars>>

\* QueryCache::get(query)
Get(k) ==
  /\ store' = cache_get(store, k, now)[2]
  /\ UNCHANGED <<now, size, ttl, seconds, lastInsert, insertLog, confVars, callVars, http, wireVars>>

\* QueryCache::clear()
Clear ==
  /\ store' = EmptyStore
  /\ lastInsert' = [k \in Keys |-> NoEntry]
  /\ insertLog' = <<>>
  /\ UNCHANGED <<now, size, ttl, seconds, confVars, callVars, http, wireVars>>

\* time passes between two operations
Tick ==
  /\ pc = "idle"
  /\ now < MaxTime
  /\ now' = now + 1
  /\ UNCHANGED <<cacheVars, confVars, callVars, http, wireVars>>

NextCache ==
  \/ \E k \in Keys, v \in Vals : Insert(k, v)
  \/ \E k \in Keys : Get(k)
  \/ Clear
  \/ Tick

SpecCache == InitCache /\ [][NextCache]_vars

(* ------------------------- claims on the cache ------------------------ *)
\* the key has been inserted since construction or the last clear
Inserted(k) == lastInsert[k].at # NoTime
\* ticks since the key's last insert
Age(k) == now - lastInsert[k].at

\* C1: after any sequence of insert, get and clear on a QueryCache built
\* with capacity N, len() is at most N.
C1_LenWithinCapacity == cache_size(store) <= size

\* C2: after N+1 distinct keys have been inserted into a cache of capacity
\* N, all still within the TTL, get of the oldest-inserted key returns None
\* and get of each of the other N keys returns the value it was inserted
\* with.  (Stated for a TTL of whole seconds, where as_secs loses nothing.)
C2_EvictsExactlyOldest ==
  (/\ insertLog # Spoiled
   /\ Len(insertLog) = size + 1
   /\ seconds * TicksPerSec = ttl
   /\ \A i \in 1..Len(insertLog) : Age(insertLog[i]) < ttl)
  => /\ GetResult(insertLog[1]) = NoneVal
     /\ \A i \in 2..Len(insertLog) :
          GetResult(insertLog[i]) = lastInsert[insertLog[i]].val

\* C3: once more than the TTL has elapsed since a key's last insert, get
\* of that key returns None, whatever gets were answered before.
C3_NoStaleGet ==
  \A k \in Keys : (Inserted(k) /\ Age(k) > ttl) => GetResult(k) = NoneVal

\* an entry that has outlived the TTL and is still in the store
C3_Witness ==
  \E k \in Keys : Inserted(k) /\ Age(k) > ttl /\ k \in DOMAIN store

\* C4: get(k) returns Some(v) iff k, as the exact string, was inserted with
\* v and has not expired; in particular a get before the TTL has elapsed
\* since insert(k, v), with no clear in between, returns v, for every TTL.
C4_GetIffPresentAndFresh ==
  \A k \in Keys :
    /\ GetResult(k) # NoneVal =>
         (Inserted(k) /\ Age(k) <= ttl /\ GetResult(k) = lastInsert[k].val)
    /\ (Inserted(k) /\ Age(k) < ttl) => GetResult(k) = lastInsert[k].val

\* C20: get has no effect on expiry or eviction order: an entry's time is
\* that of its last insert whatever gets were made, and once more distinct
\* keys than the capacity have been inserted, all within the TTL, the
\* entries kept are the newest-inserted ones, the oldest-inserted evicted.
\* (Stated for a TTL of whole seconds.)
C20_GetKeepsInsertionOrder ==
  /\ \A k \in DOMAIN store : store[k].at = lastInsert[k].at
  /\ (/\ insertLog # Spoiled
      /\ Len(insertLog) > size
      /\ seconds * TicksPerSec = ttl
      /\ \A i \in 1..Len(insertLog) : Age(insertLog[i]) < ttl)
     => DOMAIN store =
          {insertLog[i] : i \in (Len(insertLog) - size + 1)..Len(insertLog)}

\* QueryCache::len()
len == cache_size(store)
\* QueryCache::is_empty()
is_empty == len = 0

\* the keys for which a get made in the current state returns Some
Retrievable == {k \in Keys : GetResult(k) # NoneVal}

\* C21: an insert on a key that is present replaces its value and restarts
\* its TTL from the time of the overwrite without increasing len(); a get
\* of the key within the TTL of the overwrite returns the new value.
C21_OverwriteRestartsTtl ==
  [][\A k \in Keys :
       (k \in DOMAIN store /\ k \in DOMAIN store' /\ lastInsert'[k] # lastInsert[k])
       => /\ store'[k] = [val |-> lastInsert'[k].val, at |-> now']
          /\ cache_size(store') = cache_size(store)
          /\ now' - store'[k].at < ttl
               => cache_get(store', k, now')[1] = lastInsert'[k].val]_vars

\* C30: len() is the number of keys a get would return a value for, and
\* is_empty() holds exactly when there is none: expired entries are not
\* counted.  (Stated for a TTL of whole seconds.)
C30_LenCountsRetrievable ==
  seconds * TicksPerSec = ttl
  => /\ len = Cardinality(Retrievable)
     /\ is_empty <=> Retrievable = {}

(* --------------------- retry.rs: with_backoff ------------------------- *)
\* max_retries handed to with_backoff ranges over 0..MaxRetries
MaxRetries == 3
\* an operation completes within 0..MaxOpTicks ticks
MaxOpTicks == 1
\* ExponentialBackoff { multiplier: 2.0, .. }
Multiplier == 2

\* The error kinds an operation fails with (variants of CoreError)
ErrKinds == {"Api.Network", "Api.RateLimit", "Api.InvalidKey", "Api.Other"}
\* delays with_backoff is called with: 0.25 s, 0.5 s, 1 s
InitialDelays == {TicksPerSec \div 4, TicksPerSec \div 2}
MaxDelays == {TicksPerSec \div 4, TicksPerSec \div 2, TicksPerSec}
\* an operation that fails MaxFails times never succeeds within one call
MaxFails == MaxRetries + 1
\* The operations: fail `fails` times with `kind`, then return Ok(val)
\* (the shape of MockLLMApi and of the operations of retry.rs's tests)
Operations ==
  {[fails |-> 0, kind |-> "", val |-> v] : v \in Vals}
  \cup {[fails |-> n, kind |-> e, val |-> "r1"] : n \in 1..MaxFails, e \in ErrKinds}

\* should_retry: Network and RateLimit API errors and Stream errors
should_retry(e) == e \in {"Api.Network", "Api.RateLimit", "Stream"}

\* ExponentialBackoff::default(): current_interval = initial_interval =
\* 500 ms, randomization_factor = 0.5, start_time = Instant::now().  The
\* struct-update `..Default::default()` takes current_interval, start_time
\* and randomization_factor from it; initial_interval, max_interval,
\* multiplier and max_elapsed_time are the ones overridden.
DefaultInterval == TicksPerSec \div 2
NewBackoff(t) == [current_interval |-> DefaultInterval, start_time |-> t]

\* max_elapsed_time: Some(max_delay * max_retries)
max_elapsed_time == max_delay * max_retries

\* the randomized interval: current_interval -/+ randomization_factor (0.5)
\* times itself, in whole ticks
RandomizedIntervals(c) == ((c + 1) \div 2) .. ((3 * c) \div 2)

\* increment_current_interval: times the multiplier, clamped to max_interval
NextInterval(c) ==
  IF c * Multiplier >= max_delay THEN max_delay ELSE c * Multiplier

\* Backoff::next_backoff for ExponentialBackoff at time t with the random
\* draw r: None once the elapsed time exceeds max_elapsed_time (and, in
\* backoff >= 0.4, when elapsed + r does); otherwise Some(r)
BackoffExpired_NoDeadlineMutant(t, r) == FALSE
BackoffExpired(t, r) ==
  \/ t - backoff.start_time > max_elapsed_time
  \/ checkedSleep /\ (t - backoff.start_time) + r > max_elapsed_time

OkResult(v) == [tag |-> "Ok", val |-> v, msg |-> "", attempts |-> 0, cause |-> ""]
\* FailedAfter, but the operation's error is returned as it is
FailedAfter_PassThroughMutant(n, e) ==
  [tag |-> e, val |-> NoneVal, msg |-> "", attempts |-> n, cause |-> ""]
\* FailedAfter, but the message leaves out the operation's error
FailedAfter_NoCauseMutant(n, e) ==
  [tag |-> "Retry", val |-> NoneVal, msg |-> "Operation failed after", attempts |-> n, cause |-> ""]
\* CoreError::Retry("Operation failed after {attempt} attempts: {err}")
FailedAfter(n, e) ==
  [tag |-> "Retry", val |-> NoneVal, msg |-> "Operation failed after", attempts |-> n, cause |-> e]
\* CoreError::Retry("Retry timeout exceeded")
TimeoutExceeded ==
  [tag |-> "Retry", val |-> NoneVal, msg |-> "Retry timeout exceeded", attempts |-> 0, cause |-> ""]

\* JoinHandle::abort on the task of a spawn_blocking closure: a task that
\* has not started yet is cancelled, one whose closure runs is not affected
abort(d) == IF d = "spawned" THEN "aborted" ELSE d

\* Return, but query caches whatever with_backoff returned, errors included
Return_CacheOnErrMutant(res, t) ==
  /\ result' = res
  /\ sleepFor' = 0
  /\ pc' = IF caller = "query" THEN "idle" ELSE "done"
  /\ attempt' = 0
  /\ backoff' = [current_interval |-> 0, start_time |-> backoff.start_time]
  /\ delays' = <<>>
  /\ store' = cache_set(store, prompt, res.val, t)
  /\ lastInsert' = [lastInsert EXCEPT ![prompt] = [at |-> t, val |-> res.val]]
  /\ insertLog' = LogInsert(insertLog, prompt)
  /\ draw' = IF caller = "query" /\ res.tag = "Ok" THEN abort(draw) ELSE draw
  /\ UNCHANGED <<size, ttl, seconds>>

\* with_backoff returns res at time t.  Called by query, query goes on:
\* on Ok it inserts (prompt, response) into the cache and returns Ok, on
\* Err it returns the error; with_backoff's locals are gone by then.
Return(res, t) ==
  /\ result' = res
  /\ sleepFor' = 0
  /\ IF caller = "query"
     THEN /\ pc' = "idle"
          /\ attempt' = 0
          /\ backoff' = [current_interval |-> 0, start_time |-> backoff.start_time]
          /\ delays' = <<>>
          /\ IF res.tag = "Ok"
             THEN /\ store' = cache_set(store, prompt, res.val, t)
                  /\ lastInsert' = [lastInsert EXCEPT ![prompt] = [at |-> t, val |-> res.val]]
                  /\ insertLog' = LogInsert(insertLog, prompt)
             ELSE UNCHANGED <<store, lastInsert, insertLog>>
     ELSE /\ pc' = "done"
          /\ attempt' = IF res.tag = "Ok" THEN attempt ELSE attempt + 1
          /\ UNCHANGED <<store, lastInsert, insertLog, backoff, delays>>
  /\ draw' = IF caller = "query" /\ res.tag = "Ok" THEN abort(draw) ELSE draw
  /\ UNCHANGED <<size, ttl, seconds>>

\* the guard `attempt >= max_retries` of the Err arm, attempt already counted
Exhausted_GtMutant(n) == n > max_retries
Exhausted(n) == n >= max_retries

\* with_backoff(operation, max_retries, initial_delay, max_delay): builds
\* the backoff and calls operation() for the first time
Enter ==
  /\ pc = "start"
  /\ backoff' = NewBackoff(now)
  /\ attempt' = 0
  /\ invocations' = 1
  /\ inflight' = inflight + 1
  /\ pc' = "calling"
  /\ UNCHANGED <<now, cacheVars, confVars, caller, prompt, sleepFor, op, delays,
                 before, queries, result, streamVars, lock, http, wireVars>>
  /\ UNCHANGED draw

\* operation().await completes with Ok(value) after d ticks
OpOk(d) ==
  /\ pc = "calling"
  /\ invocations > op.fails
  /\ now' = now + d
  /\ inflight' = inflight - 1
  /\ Return(OkResult(op.val), now + d)
  /\ UNCHANGED <<confVars, caller, prompt, op, invocations, before, queries,
                 streamVars, lock, http, wireVars>>

\* the Err arm of with_backoff's loop, entered at time t with the error e:
\* give up when the attempts are used up or the backoff's deadline has
\* passed, otherwise sleep for the next backoff interval
ErrArm(e, t) ==
  IF Exhausted(attempt + 1)
  THEN Return(FailedAfter(attempt + 1, e), t)
  ELSE \E r \in RandomizedIntervals(backoff.current_interval) :
         IF BackoffExpired(t, r)
         THEN Return(TimeoutExceeded, t)
         ELSE /\ attempt' = attempt + 1
              /\ backoff' = [backoff EXCEPT !.current_interval = NextInterval(@)]
              /\ sleepFor' = r
              /\ delays' = Append(delays, r)
              /\ pc' = "sleeping"
              /\ UNCHANGED <<cacheVars, result, draw>>

\* operation().await completes with Err(err) after d ticks: the Err arm
OpErr(d) ==
  /\ pc = "calling"
  /\ invocations <= op.fails
  /\ now' = now + d
  /\ inflight' = inflight - 1
  /\ ErrArm(op.kind, now + d)
  /\ UNCHANGED <<confVars, caller, prompt, op, invocations, before, queries,
                 streamVars, lock, http, wireVars>>

\* sleep(duration).await is over: the loop calls operation() again
Wake ==
  /\ pc = "sleeping"
  /\ now' = now + sleepFor
  /\ sleepFor' = 0
  /\ invocations' = invocations + 1
  /\ inflight' = inflight + 1
  /\ pc' = "calling"
  /\ UNCHANGED <<cacheVars, confVars, backoff, attempt, caller, prompt, op,
                 delays, before, queries, result, streamVars, lock, http, wireVars>>
  /\ UNCHANGED draw

\* the arguments of a call
Config ==
  /\ max_retries \in 0..MaxRetries
  /\ initial_delay \in InitialDelays
  /\ max_delay \in MaxDelays
  /\ checkedSleep \in BOOLEAN
  /\ stream_responses = FALSE

InitRetry ==
  /\ now = 0
  /\ CacheNew(1, TicksPerSec)
  /\ Config
  /\ pc = "start" /\ caller = "direct"
  /\ backoff = [current_interval |-> 0, start_time |-> 0]
  /\ attempt = 0 /\ prompt = "" /\ sleepFor = 0
  /\ op \in Operations
  /\ invocations = 0 /\ delays = <<>> /\ before = EmptyStore /\ queries = 0
  /\ result = NoResult
  /\ chunks = <<>> /\ stream = <<>> /\ response = "" /\ err = NoErr
  /\ lock = "free" /\ inflight = 0 /\ draw = "none"
  /\ http = NoHttp
  /\ NoWire

NextRetry ==
  \/ Enter
  \/ \E d \in 0..MaxOpTicks : OpOk(d)
  \/ \E d \in 0..MaxOpTicks : OpErr(d)
  \/ Wake

SpecRetry == InitRetry /\ [][NextRetry]_vars

(* ---------------------- claims on with_backoff ------------------------ *)
\* the operation fails on every call of this run
AlwaysFails == op.fails = MaxFails
Max(a, b) == IF a >= b THEN a ELSE b

\* C8: when the first attempt fails with a non-retryable error (InvalidKey,
\* Other), with_backoff returns an error after that one invocation: it
\* neither sleeps nor calls the operation again, whatever max_retries is.
C8_NoRetryOfNonRetryable ==
  (caller = "direct" /\ op.fails >= 1 /\ ~should_retry(op.kind))
  => /\ invocations <= 1
     /\ delays = <<>>
     /\ pc = "done" => result.tag = "Retry"

\* C9: when the operation fails k times with a retryable error and then
\* succeeds, and max_retries > k, with_backoff returns Ok with the success
\* value after exactly k+1 invocations.
C9_SucceedsAfterKFailures ==
  (/\ caller = "direct" /\ pc = "done"
   /\ op.fails < max_retries
   /\ op.fails >= 1 => should_retry(op.kind))
  => /\ result = OkResult(op.val)
     /\ invocations = op.fails + 1

\* C10 as written: an operation that always fails with a retryable error
\* makes with_backoff return an error after exactly max_retries invocations
\* (exactly one when max_retries = 0).
C10_ExactlyMaxRetries ==
  (caller = "direct" /\ pc = "done" /\ AlwaysFails /\ should_retry(op.kind))
  => /\ result.tag = "Retry"
     /\ invocations = Max(1, max_retries)

\* C10 as amended: such a run never makes more than max(1, max_retries)
\* invocations and ends in an error; it makes exactly max_retries when it
\* ends with "Operation failed after N attempts" (N the invocations made),
\* fewer when the backoff's deadline ends it with "Retry timeout exceeded",
\* and exactly one when max_retries = 0.
C10_AtMostMaxRetries ==
  (caller = "direct" /\ AlwaysFails /\ should_retry(op.kind))
  => /\ invocations <= Max(1, max_retries)
     /\ pc = "done" =>
          /\ result.tag = "Retry"
          /\ result.msg = "Operation failed after" =>
               (invocations = Max(1, max_retries) /\ result.attempts = invocations)
          /\ result.msg = "Retry timeout exceeded" =>
               (invocations >= 1 /\ invocations < max_retries)
          /\ max_retries = 0 => invocations = 1

\* retries exhausted after two invocations, a sleep in between
C10_Witness ==
  /\ caller = "direct" /\ pc = "done" /\ AlwaysFails /\ should_retry(op.kind)
  /\ max_retries = 2 /\ invocations = 2 /\ Len(delays) = 1
  /\ result = FailedAfter(2, op.kind)

Min(a, b) == IF a <= b THEN a ELSE b

\* C11: the delay slept before retry k (k >= 1) is
\* min(initial_delay * 2^(k-1), max_delay): the first delay is
\* initial_delay and each later one doubles, clamped to max_delay.
C11_DelaysDoubleFromInitial ==
  caller = "direct"
  => \A k \in 1..Len(delays) :
       delays[k] = Min(initial_delay * 2^(k - 1), max_delay)

Elapsed == now - backoff.start_time

LastErrorKind == IF stream_responses THEN err.kind ELSE op.kind
\* the call has returned after a last call of the operation that failed
ReturnedAfterFailure ==
  /\ \/ caller = "direct" /\ pc = "done"
     \/ caller = "query" /\ pc = "idle" /\ queries > 0 /\ invocations >= 1
  /\ IF stream_responses THEN err # NoErr ELSE invocations <= op.fails

\* C28: every error returned by with_backoff, and so by query, is of kind
\* CoreError::Retry whatever the kind of the underlying failure; the
\* original kind survives only as text inside the message.
C28_EveryErrorIsRetry ==
  /\ result.tag \in {"None", "Ok", "Retry"}
  /\ ReturnedAfterFailure =>
       /\ result.tag = "Retry"
       /\ result.tag # LastErrorKind
       /\ \/ result = FailedAfter(invocations, LastErrorKind)
          \/ result = TimeoutExceeded

\* a call given up after two failures with ApiError::InvalidKey
C28_Witness ==
  /\ caller = "direct" /\ pc = "done"
  /\ op.kind = "Api.InvalidKey" /\ invocations = 2
  /\ result.tag = "Retry" /\ result.cause = "Api.InvalidKey"

(* ----------------------- mod.rs: QueryEngine -------------------------- *)
\* at most MaxQueries calls of query are made
MaxQueries == 2
\* QueryConfig.max_retries: none, one, and the default of three
EngineRetries == {0, 1, 3}
\* the prompts the engine is queried with
Prompts == {"q", "Q"}
\* the backend during one query: answers at once, fails once and then
\* answers, or fails on every call; and MockLLMApi with fail_count 2, which
\* fails twice with ApiError::Other and then answers
BackendOperations ==
  {o \in Operations : /\ o.fails \in {0, 1, MaxFails}
                       /\ o.kind \in {"", "Api.Network", "Api.InvalidKey"}}
  \cup {o \in Operations : o.fails = 2 /\ o.kind = "Api.Other"}

\* QueryEngine::new(client, config): the cache is built from
\* config.max_cache_size and config.cache_ttl
InitEngine ==
  /\ now = 0
  /\ \E d \in TtlChoices : CacheNew(MaxCap, d)
  /\ max_retries \in EngineRetries
  /\ initial_delay = TicksPerSec \div 4
  /\ max_delay = TicksPerSec \div 2
  /\ checkedSleep \in BOOLEAN
  /\ stream_responses = FALSE
  /\ pc = "idle" /\ caller = "query"
  /\ NoCall
  /\ http = NoHttp
  /\ NoWire

\* query(prompt), the cache has an unexpired entry: return it
QueryHit(p) ==
  /\ pc = "idle" /\ caller = "query"
  /\ queries < MaxQueries
  /\ queries' = queries + 1
  /\ cache_get(store, p, now)[1] # NoneVal
  /\ result' = OkResult(cache_get(store, p, now)[1])
  /\ store' = cache_get(store, p, now)[2]
  /\ prompt' = p
  /\ before' = store
  /\ invocations' = 0
  /\ delays' = <<>>
  /\ attempt' = 0
  /\ UNCHANGED <<now, size, ttl, seconds, lastInsert, insertLog, confVars,
                 backoff, pc, caller, sleepFor, op, streamVars, lock, inflight,
                 http, wireVars>>
  /\ UNCHANGED draw

\* query(prompt), the lookup finds nothing (removing an expired entry):
\* enter with_backoff, which calls the operation for the first time
QueryMiss(p, o) ==
  /\ pc = "idle" /\ caller = "query"
  /\ queries < MaxQueries
  /\ queries' = queries + 1
  /\ cache_get(store, p, now)[1] = NoneVal
  /\ store' = cache_get(store, p, now)[2]
  /\ prompt' = p
  /\ before' = store
  /\ op' = o
  /\ backoff' = NewBackoff(now)
  /\ attempt' = 0
  /\ invocations' = 1
  /\ inflight' = inflight + 1
  /\ delays' = <<>>
  /\ result' = NoResult
  /\ pc' = "calling"
  /\ UNCHANGED <<now, size, ttl, seconds, lastInsert, insertLog, confVars,
                 caller, sleepFor, streamVars, lock, http, wireVars>>
  /\ draw' = "spawned"

\* time passes between two calls of query
Idle ==
  /\ pc = "idle" /\ caller = "query"
  /\ queries > 0 /\ queries < MaxQueries
  /\ now < MaxTime
  /\ now' = now + 1
  /\ UNCHANGED <<cacheVars, confVars, callVars, http, wireVars>>

Next ==
  \/ \E p \in Prompts : QueryHit(p)
  \/ \E p \in Prompts, o \in BackendOperations : QueryMiss(p, o)
  \/ \E d \in 0..MaxOpTicks : OpOk(d)
  \/ \E d \in 0..MaxOpTicks : OpErr(d)
  \/ Wake
  \/ Idle

Spec == InitEngine /\ [][Next]_vars

(* ------------------------ claims on the engine ------------------------ *)
\* query has returned and the next call has not started
Returned == caller = "query" /\ pc = "idle" /\ queries > 0
\* the backend is being used by the query in progress
InBackend == caller = "query" /\ pc \in {"calling", "sleeping"}

\* C5: a query that finds the prompt cached returns the cached response
\* without invoking the backend, so that a query(p) made within the TTL of
\* an earlier successful query(p) never reaches the backend.
C5_CacheShortCircuit ==
  /\ (Returned /\ result.tag = "Ok" /\ invocations = 0)
       => result.val = lastInsert[prompt].val
  /\ InBackend
       => ~(Inserted(prompt) /\ backoff.start_time - lastInsert[prompt].at < ttl)

\* C6 as written: when query ends in failure the cache is exactly as it
\* was when the call was entered.  (Stated for the calls that found no
\* entry for the prompt or one that had outlived the TTL.)
C6_FailureLeavesCacheAsWas ==
  (/\ Returned /\ result.tag = "Retry"
   /\ prompt \in DOMAIN before => backoff.start_time - before[prompt].at > ttl)
  => store = before

\* C6 as amended: when query ends in failure, nothing has been inserted or
\* overwritten: there is no entry for the prompt, every other key's entry
\* is as it was, and the only entry that can be gone is the prompt's own,
\* which the lookup found expired.
C6_FailureInsertsNothing ==
  (Returned /\ result.tag = "Retry")
  => /\ prompt \notin DOMAIN store
     /\ DOMAIN store = DOMAIN before \ {prompt}
     /\ \A k \in DOMAIN store : store[k] = before[k]
     /\ prompt \in DOMAIN before =>
          as_secs(backoff.start_time - before[prompt].at) >= seconds

\* a failed query whose lookup dropped the prompt's entry, older than the
\* TTL, and that went through a retry
C6_Witness ==
  /\ Returned /\ result.tag = "Retry"
  /\ prompt \in DOMAIN before
  /\ backoff.start_time - before[prompt].at > ttl
  /\ store # before
  /\ invocations >= 2

\* C7: when query returns Ok(r) after a cache miss, (prompt, r) is in the
\* cache, r is the value the backend's successful attempt produced, and a
\* get(prompt) made right then returns r.
C7_MissCachesResponse ==
  (Returned /\ result.tag = "Ok" /\ invocations >= 1)
  => /\ prompt \in DOMAIN store
     /\ store[prompt].val = result.val
     /\ result.val = op.val
     /\ store[prompt].at = now => GetResult(prompt) = result.val

\* C22: in non-streaming mode, when the backend's send_query fails k times
\* with ApiError::Other and then succeeds, and k < max_retries, query
\* returns Ok with the backend's response.
C22_QuerySucceedsAfterOtherErrors ==
  (/\ Returned /\ ~stream_responses /\ invocations >= 1
   /\ op.kind = "Api.Other" /\ op.fails >= 1 /\ op.fails < max_retries)
  => result = OkResult(op.val)

(* --------------- mod.rs: the draw loop of QueryEngine::query ---------- *)
\* QueryConfig.max_retries of the engine whose draw task is followed
DrawRetries == {1, 3}
\* the backend: answers at once, fails once and then answers, or fails on
\* every call
DrawOperations == {o \in BackendOperations : o.kind \in {"", "Api.Network"}}

InitDraw ==
  /\ now = 0
  /\ CacheNew(MaxCap, TicksPerSec)
  /\ max_retries \in DrawRetries
  /\ initial_delay = TicksPerSec \div 4
  /\ max_delay = TicksPerSec \div 2
  /\ checkedSleep \in BOOLEAN
  /\ stream_responses = FALSE
  /\ pc = "idle" /\ caller = "query"
  /\ NoCall
  /\ http = NoHttp
  /\ NoWire

\* A thread of the blocking pool takes the task and runs its closure
DrawStart ==
  /\ draw = "spawned"
  /\ draw' = "drawing"
  /\ UNCHANGED <<now, cacheVars, confVars, backoff, attempt, pc, caller, prompt,
                 sleepFor, op, invocations, delays, before, queries, result,
                 streamVars, lock, inflight, http, wireVars>>

\* The closure, `loop { m2.draw().ok(); sleep(50 ms) }`: after the draw
\* the sleep, after the sleep the next draw.  The loop has no exit.
DrawLoop ==
  /\ draw \in {"drawing", "pausing"}
  /\ draw' = IF draw = "drawing" THEN "pausing" ELSE "drawing"
  /\ UNCHANGED <<now, cacheVars, confVars, backoff, attempt, pc, caller, prompt,
                 sleepFor, op, invocations, delays, before, queries, result,
                 streamVars, lock, inflight, http, wireVars>>

NextDraw ==
  \/ \E p \in Prompts : QueryHit(p)
  \/ \E p \in Prompts, o \in DrawOperations : QueryMiss(p, o)
  \/ \E d \in 0..MaxOpTicks : OpOk(d)
  \/ \E d \in 0..MaxOpTicks : OpErr(d)
  \/ Wake
  \/ Idle
  \/ DrawStart
  \/ DrawLoop

SpecDraw == InitDraw /\ [][NextDraw]_vars

\* The runtime keeps polling the future of query, so a call that can go on
\* does, and the blocking pool gives every spawned task a thread.
FairDraw ==
  /\ SpecDraw
  /\ WF_vars(\E d \in 0..MaxOpTicks : OpOk(d))
  /\ WF_vars(\E d \in 0..MaxOpTicks : OpErr(d))
  /\ WF_vars(Wake)
  /\ WF_vars(DrawStart)
  /\ WF_vars(DrawLoop)

\* C29: the draw task that query spawns on a cache miss is stopped once
\* the query has its result: whenever query has returned, Ok or Err, the
\* task eventually is no longer there to run.
C29_DrawTaskStops ==
  [](( Returned /\ invocations >= 1) => <>(draw \in {"none", "aborted"}))

(* ------------------ stream.rs: handle_streaming_response -------------- *)
\* The items of a StreamingResponse (Stream<Item = ApiResult<String>>).
\* An Ok item is a string: `framed` says whether it starts with "data: ",
\* `done` whether the rest trims to "[DONE]"; `error` is error.message and
\* `content` is choices[0].delta.content of the rest parsed as JSON (None
\* when absent or not a string); `text` is the string itself when it is
\* not framed, and the rest when that is not JSON.  An Err item carries an
\* ApiError: its kind and message.
Item(tag, framed, done, error, content, text, kind) ==
  [tag |-> tag, framed |-> framed, done |-> done, error |-> error,
   content |-> content, text |-> text, kind |-> kind]
\* a plain-text increment, as the streams of OpenAIClient and GeminiClient
\* deliver them: "Hello"
Plain(t) == Item("Ok", FALSE, FALSE, NoneVal, NoneVal, t, "")
\* data: {"choices":[{"delta":{"content":t}}]}
Delta(t) == Item("Ok", TRUE, FALSE, NoneVal, t, NoneVal, "")
\* data: {"choices":[{"delta":{"role":"assistant"}}]}
RoleOnly == Item("Ok", TRUE, FALSE, NoneVal, NoneVal, NoneVal, "")
\* data: [DONE]
Done == Item("Ok", TRUE, TRUE, NoneVal, NoneVal, NoneVal, "")
\* data: {"error":{"message":m}}
ErrorFrame(m) == Item("Ok", TRUE, FALSE, m, NoneVal, NoneVal, "")
\* data: {"choices":[{"del   (the rest is not JSON)
Malformed == Item("Ok", TRUE, FALSE, NoneVal, NoneVal, "{\"choices\":[{\"del", "")
\* Err(ApiError): Network for a transport error, Other(m) for an error
\* payload found by the client's process_stream_chunk
ErrItem(k, m) == Item("Err", FALSE, FALSE, m, NoneVal, NoneVal, k)

\* ChunkStep, but the rest of a "data: [DONE]" frame is taken for text
ChunkStep_DoneIsTextMutant(item, i) ==
  IF item.tag = "Err"
  THEN [out |-> "Err", e |-> [kind |-> item.kind, msg |-> item.error, at |-> i], push |-> ""]
  ELSE IF ~item.framed THEN [out |-> "Next", e |-> NoErr, push |-> ""]
  ELSE IF item.done THEN [out |-> "Next", e |-> NoErr, push |-> "[DONE]"]
  ELSE IF item.error # NoneVal
  THEN [out |-> "Err", e |-> [kind |-> "Other", msg |-> item.error, at |-> i], push |-> ""]
  ELSE IF item.content # NoneVal
  THEN [out |-> "Next", e |-> NoErr, push |-> item.content]
  ELSE [out |-> "Next", e |-> NoErr, push |-> ""]

\* One turn of the `while let Some(chunk) = stream.next().await` loop on
\* the item i, the i-th of the stream: return an error, push a token to
\* `response`, or go on to the next item.
ChunkStep(item, i) ==
  IF item.tag = "Err"
  THEN [out |-> "Err", e |-> [kind |-> item.kind, msg |-> item.error, at |-> i], push |-> ""]
  ELSE IF ~item.framed THEN [out |-> "Next", e |-> NoErr, push |-> ""]
  ELSE IF item.done THEN [out |-> "Next", e |-> NoErr, push |-> ""]
  ELSE IF item.error # NoneVal
  THEN [out |-> "Err", e |-> [kind |-> "Other", msg |-> item.error, at |-> i], push |-> ""]
  ELSE IF item.content # NoneVal
  THEN [out |-> "Next", e |-> NoErr, push |-> item.content]
  ELSE [out |-> "Next", e |-> NoErr, push |-> ""]

\* streams that end without an error: the one of stream.rs's
\* test_streaming_response, the same increments as plain text (what the
\* backends' streams and tests/streaming_tests.rs's test_large_stream
\* deliver), the one of tests/api_tests.rs's test_openai_streaming as SSE
\* frames, a stream with a frame that is not JSON, and the empty stream
GoodStreams ==
  { <<Delta("Hello"), Delta(", "), Delta("world"), Delta("!"), Done>>,
    <<Plain("Hello"), Plain(", "), Plain("world"), Plain("!")>>,
    <<RoleOnly, Delta("Test"), Delta(" "), Delta("response"), Done>>,
    <<Delta("Test"), Malformed, Delta(" response"), Done>>,
    <<>> }
\* streams that deliver some text and then an error: the one of stream.rs's
\* test_streaming_error, a transport error, and the error payload of
\* tests/api_tests.rs's test_streaming_error as OpenAIClient hands it on
BadStreams ==
  { <<Delta("Token1 "), ErrorFrame("Simulated error")>>,
    <<Delta("Token1 "), ErrItem("Api.Network", "connection reset")>>,
    <<Plain("Test"), ErrItem("Api.Other", "Stream error")>> }
\* the stream a retry gets once the backend has recovered
RecoveredStream == <<Delta("Hello"), Delta(", "), Delta("world"), Delta("!"), Done>>

\* The backend during one streaming query: its first `fails` calls of
\* send_streaming_query get the stream `bad`, the later ones `good`
StreamOperations ==
  {[fails |-> 0, bad |-> <<>>, good |-> g] : g \in GoodStreams}
  \cup {[fails |-> n, bad |-> b, good |-> RecoveredStream] :
          n \in {1, MaxFails}, b \in BadStreams}

\* QueryConfig.max_retries of the streaming engine: none, and two
StreamRetries == {0, 2}

\* client.send_streaming_query(prompt) of the n-th call of the operation
AttemptStream(o, n) == IF n <= o.fails THEN o.bad ELSE o.good

\* QueryEngine::new with stream_responses: true
InitStream ==
  /\ now = 0
  /\ CacheNew(MaxCap, TicksPerSec)
  /\ max_retries \in StreamRetries
  /\ initial_delay = TicksPerSec \div 4
  /\ max_delay = TicksPerSec \div 2
  /\ checkedSleep \in BOOLEAN
  /\ stream_responses = TRUE
  /\ pc = "idle" /\ caller = "query"
  /\ NoCall
  /\ http = NoHttp
  /\ NoWire

\* query(p) is called and calls self.cache.get(prompt), which takes the
\* cache's lock
QueryBegin(p) ==
  /\ pc \in {"idle", "cancelled"} /\ caller = "query"
  /\ queries < MaxQueries
  /\ queries' = queries + 1
  /\ prompt' = p
  /\ before' = store
  /\ result' = NoResult
  /\ invocations' = 0
  /\ chunks' = <<>> /\ stream' = <<>> /\ response' = "" /\ err' = NoErr
  /\ lock' = "held"
  /\ pc' = "get"
  /\ UNCHANGED <<now, cacheVars, confVars, backoff, attempt, caller, sleepFor,
                 op, delays, inflight, http, wireVars>>
  /\ UNCHANGED draw

\* cache.get finds an unexpired entry and returns, dropping the guard;
\* query returns the cached response
LookupHit ==
  /\ pc = "get"
  /\ cache_get(store, prompt, now)[1] # NoneVal
  /\ store' = cache_get(store, prompt, now)[2]
  /\ lock' = "free"
  /\ result' = OkResult(cache_get(store, prompt, now)[1])
  /\ pc' = "idle"
  /\ UNCHANGED <<now, size, ttl, seconds, lastInsert, insertLog, confVars,
                 backoff, attempt, caller, prompt, sleepFor, op, invocations,
                 delays, before, queries, streamVars, inflight, http, wireVars>>
  /\ UNCHANGED draw

\* LookupMiss, but the guard of the lookup lives on into with_backoff
LookupMiss_KeepGuardMutant(o) ==
  /\ pc = "get"
  /\ cache_get(store, prompt, now)[1] = NoneVal
  /\ store' = cache_get(store, prompt, now)[2]
  /\ lock' = "held"
  /\ op' = o
  /\ backoff' = NewBackoff(now)
  /\ attempt' = 0
  /\ delays' = <<>>
  /\ invocations' = 1
  /\ inflight' = inflight + 1
  /\ chunks' = AttemptStream(o, 1)
  /\ stream' = AttemptStream(o, 1)
  /\ response' = ""
  /\ pc' = "streaming"
  /\ UNCHANGED <<now, size, ttl, seconds, lastInsert, insertLog, confVars,
                 caller, prompt, sleepFor, before, queries, result, err, http, wireVars>>
  /\ draw' = "spawned"

\* cache.get finds nothing (removing an expired entry) and returns,
\* dropping the guard; query enters with_backoff, whose first call of the
\* operation enters handle_streaming_response and is handed a stream
LookupMiss(o) ==
  /\ pc = "get"
  /\ cache_get(store, prompt, now)[1] = NoneVal
  /\ store' = cache_get(store, prompt, now)[2]
  /\ lock' = "free"
  /\ op' = o
  /\ backoff' = NewBackoff(now)
  /\ attempt' = 0
  /\ delays' = <<>>
  /\ invocations' = 1
  /\ inflight' = inflight + 1
  /\ chunks' = AttemptStream(o, 1)
  /\ stream' = AttemptStream(o, 1)
  /\ response' = ""
  /\ pc' = "streaming"
  /\ UNCHANGED <<now, size, ttl, seconds, lastInsert, insertLog, confVars,
                 caller, prompt, sleepFor, before, queries, result, err, http, wireVars>>
  /\ draw' = "spawned"

\* the index in `chunks` of the item stream.next() yields
Position == Len(chunks) - Len(stream) + 1

\* StreamChunk, but the text received so far is put into the cache at once
StreamChunk_CachePartialMutant ==
  /\ pc = "streaming"
  /\ stream # <<>>
  /\ ChunkStep(Head(stream), Position).out = "Next"
  /\ response' = response \o ChunkStep(Head(stream), Position).push
  /\ stream' = Tail(stream)
  /\ store' = cache_set(store, prompt, response \o ChunkStep(Head(stream), Position).push, now)
  /\ UNCHANGED <<now, size, ttl, seconds, lastInsert, insertLog, confVars, backoff,
                 attempt, pc, caller, prompt, sleepFor, op, invocations, delays,
                 before, queries, result, chunks, err, lock, inflight, http, wireVars>>
  /\ UNCHANGED draw

\* stream.next().await yields an Ok item that is no error frame: its
\* token, if it has one, is appended to `response`.  (The time an attempt
\* takes is accounted for when it ends, in StreamFail and StreamEnd.)
StreamChunk ==
  /\ pc = "streaming"
  /\ stream # <<>>
  /\ ChunkStep(Head(stream), Position).out = "Next"
  /\ response' = response \o ChunkStep(Head(stream), Position).push
  /\ stream' = Tail(stream)
  /\ UNCHANGED <<now, cacheVars, confVars, backoff, attempt, pc, caller, prompt,
                 sleepFor, op, invocations, delays, before, queries, result,
                 chunks, err, lock, inflight, http, wireVars>>
  /\ UNCHANGED draw

\* StreamFail, but the stream is left open while with_backoff goes on
StreamFail_KeepStreamMutant(d) ==
  /\ pc = "streaming"
  /\ stream # <<>>
  /\ ChunkStep(Head(stream), Position).out = "Err"
  /\ now' = now + d
  /\ err' = ChunkStep(Head(stream), Position).e
  /\ ErrArm(ChunkStep(Head(stream), Position).e.kind, now + d)
  /\ UNCHANGED <<confVars, caller, prompt, op, invocations, before, queries,
                 chunks, stream, inflight, response, lock, http, wireVars>>

\* StreamFail, but the error ends the stream as if it were complete
StreamFail_PartialOkMutant(d) ==
  /\ pc = "streaming"
  /\ stream # <<>>
  /\ ChunkStep(Head(stream), Position).out = "Err"
  /\ now' = now + d
  /\ stream' = <<>>
  /\ UNCHANGED <<cacheVars, confVars, backoff, attempt, pc, caller, prompt,
                 sleepFor, op, invocations, delays, before, queries, result,
                 chunks, response, err, lock, inflight, http, wireVars>>
  /\ UNCHANGED draw

\* stream.next().await yields an Err item or an error frame, d ticks after
\* the attempt began: handle_streaming_response returns the error, its
\* stream is dropped, and with_backoff's Err arm is entered
StreamFail(d) ==
  /\ pc = "streaming"
  /\ stream # <<>>
  /\ ChunkStep(Head(stream), Position).out = "Err"
  /\ now' = now + d
  /\ err' = ChunkStep(Head(stream), Position).e
  /\ stream' = <<>>
  /\ inflight' = inflight - 1
  /\ ErrArm(ChunkStep(Head(stream), Position).e.kind, now + d)
  /\ UNCHANGED <<confVars, caller, prompt, op, invocations, before, queries,
                 chunks, response, lock, http, wireVars>>

\* stream.next().await yields None, d ticks after the attempt began:
\* handle_streaming_response returns Ok(response), with_backoff returns
\* it, and query calls self.cache.insert(prompt, response), which takes the
\* cache's lock
StreamEnd(d) ==
  /\ pc = "streaming"
  /\ stream = <<>>
  /\ now' = now + d
  /\ inflight' = inflight - 1
  /\ lock' = "held"
  /\ pc' = "insert"
  /\ UNCHANGED <<cacheVars, confVars, backoff, attempt, caller, prompt,
                 sleepFor, op, invocations, delays, before, queries, result,
                 streamVars, http, wireVars>>
  /\ draw' = abort(draw)

\* cache.insert sets the entry and returns, dropping the guard; query
\* returns Ok(response)
InsertDone ==
  /\ pc = "insert"
  /\ store' = cache_set(store, prompt, response, now)
  /\ lastInsert' = [lastInsert EXCEPT ![prompt] = [at |-> now, val |-> response]]
  /\ insertLog' = LogInsert(insertLog, prompt)
  /\ lock' = "free"
  /\ result' = OkResult(response)
  /\ attempt' = 0
  /\ backoff' = [current_interval |-> 0, start_time |-> backoff.start_time]
  /\ delays' = <<>>
  /\ pc' = "idle"
  /\ UNCHANGED <<now, size, ttl, seconds, confVars, caller, prompt, sleepFor,
                 op, invocations, before, queries, streamVars, inflight, http, wireVars>>
  /\ UNCHANGED draw

\* sleep(duration).await is over: the loop calls the operation again, which
\* enters handle_streaming_response anew and is handed a fresh stream
StreamWake ==
  /\ pc = "sleeping"
  /\ now' = now + sleepFor
  /\ sleepFor' = 0
  /\ invocations' = invocations + 1
  /\ inflight' = inflight + 1
  /\ chunks' = AttemptStream(op, invocations + 1)
  /\ stream' = AttemptStream(op, invocations + 1)
  /\ response' = ""
  /\ err' = NoErr
  /\ pc' = "streaming"
  /\ UNCHANGED <<cacheVars, confVars, backoff, attempt, caller, prompt, op,
                 delays, before, queries, result, lock, http, wireVars>>
  /\ UNCHANGED draw

\* the future of query is dropped at a suspension point (awaiting a chunk
\* or the retry sleep): its locals, the stream among them, are dropped and
\* none of its code runs any more
Cancel ==
  /\ caller = "query"
  /\ pc \in {"streaming", "sleeping"}
  /\ pc' = "cancelled"
  /\ stream' = <<>>
  /\ inflight' = 0
  /\ sleepFor' = 0
  /\ attempt' = 0
  /\ backoff' = [current_interval |-> 0, start_time |-> backoff.start_time]
  /\ delays' = <<>>
  /\ UNCHANGED <<now, cacheVars, confVars, caller, prompt, op, invocations,
                 before, queries, result, chunks, response, err, lock, http, wireVars>>
  /\ UNCHANGED draw

NextStream ==
  \/ \E p \in Prompts : QueryBegin(p)
  \/ LookupHit
  \/ \E o \in StreamOperations : LookupMiss(o)
  \/ StreamChunk
  \/ \E d \in 0..MaxOpTicks : StreamFail(d)
  \/ \E d \in 0..MaxOpTicks : StreamEnd(d)
  \/ InsertDone
  \/ StreamWake
  \/ Cancel
  \/ Idle

SpecStream == InitStream /\ [][NextStream]_vars

(* ---------------------- claims on the streaming engine ---------------- *)
RECURSIVE Concat(_)
\* the strings of a sequence put together, in order, nothing in between
Concat(ss) == IF ss = <<>> THEN "" ELSE Head(ss) \o Concat(Tail(ss))
\* every item of the stream is a plain-text increment
AllPlain(cs) == \A i \in 1..Len(cs) : cs[i].tag = "Ok" /\ ~cs[i].framed
\* the item is an error: an Err item or a frame with an error payload
IsError(item) == item.tag = "Err" \/ item.error # NoneVal
HasError(cs) == \E i \in 1..Len(cs) : IsError(cs[i])
\* the item is an error payload embedded in the stream: a frame
\* data: {"error":{"message":m}}, or the ApiError::Other(m) a client made of it
IsErrorPayload(item) ==
  \/ item.tag = "Ok" /\ item.error # NoneVal
  \/ item.tag = "Err" /\ item.kind = "Api.Other"
\* the texts of the streams that end without an error
FullTexts == {"Hello, world!", "Test response", ""}

\* C13: when the stream delivers the plain-text increments c1..cn in order
\* and then ends, the streaming query returns Ok(c1 ++ ... ++ cn).
C13_StreamConcatenation ==
  (Returned /\ result.tag = "Ok" /\ invocations >= 1 /\ AllPlain(chunks))
  => result.val = Concat([i \in 1..Len(chunks) |-> chunks[i].text])

\* C14 as written: if the chunk sequence of an attempt delivers some text
\* and then an error, the query returns Err and the cache holds no entry
\* for the prompt.  (Stated for a transport error, which is retryable.)
C14_ErrorMeansQueryFails ==
  (/\ Returned /\ invocations >= 1
   /\ op.fails >= 1
   /\ op.bad[Len(op.bad)].kind = "Api.Network")
  => /\ result.tag = "Retry"
     /\ prompt \notin DOMAIN store

\* C14 as amended: an attempt whose chunk sequence delivers some text and
\* then an error fails, and its text is dropped: the query returns Err and
\* the cache holds no entry for the prompt unless a later attempt's stream
\* ends without an error, and then the query returns, and caches, the text
\* of that attempt alone.  No text of a stream that ended in an error is
\* ever returned as Ok or cached.
C14_NoPartialResponse ==
  /\ (Returned /\ invocations >= 1 /\ HasError(chunks))
       => (result.tag = "Retry" /\ prompt \notin DOMAIN store)
  /\ (Returned /\ invocations >= 1 /\ result.tag = "Ok")
       => /\ ~HasError(chunks)
          /\ chunks = op.good
          /\ invocations = op.fails + 1
          /\ prompt \in DOMAIN store
          /\ store[prompt].val = result.val
  /\ pc = "insert" => ~HasError(chunks)
  /\ \A k \in DOMAIN store : store[k].val \in FullTexts

\* a query whose two attempts both got "Token1 " and then an error
C14_Witness ==
  /\ Returned /\ result.tag = "Retry" /\ result.msg = "Operation failed after"
  /\ invocations = 2
  /\ Len(chunks) = 2 /\ chunks[1].content = "Token1 " /\ IsError(chunks[2])
  /\ prompt \notin DOMAIN store

\* C15: an error payload embedded in a stream frame makes
\* handle_streaming_response return, at that frame, an error of kind
\* StreamError whose message is the payload's text.
C15_EmbeddedErrorIsStreamError ==
  (caller = "query" /\ stream_responses /\ err.at > 0
   /\ IsErrorPayload(chunks[err.at]))
  => /\ err.kind = "Stream"
     /\ err.msg = chunks[err.at].error
     /\ \A j \in 1..(err.at - 1) : ~IsError(chunks[j])

\* C17: at most one backend call is in flight during a query: one is in
\* flight exactly while the query awaits its stream, the stream of a failed
\* attempt is gone before the retry sleep begins, and no attempt is made
\* after the successful one.
C17_OneCallInFlight ==
  /\ inflight \in {0, 1}
  /\ (inflight = 1) <=> (pc = "streaming")
  /\ pc = "sleeping" => stream = <<>>
  /\ (Returned /\ result.tag = "Ok" /\ invocations >= 1)
       => invocations = op.fails + 1

\* the second attempt in flight, the first one over
C17_Witness ==
  /\ pc = "streaming" /\ invocations = 2 /\ inflight = 1
  /\ stream # <<>> /\ Len(delays) = 1

\* C18: the cache's lock is held only inside a cache method (get, insert)
\* and is free in every state where query awaits the backend or a retry
\* sleep.
C18_LockFreeWhileAwaiting ==
  /\ pc \in {"streaming", "sleeping", "cancelled", "idle"} => lock = "free"
  /\ pc \in {"get", "insert"} => lock = "held"

\* a second query asleep between two attempts, after the first query's
\* insert took and released the lock
C18_Witness ==
  /\ pc = "sleeping" /\ lock = "free"
  /\ queries = 2 /\ store # EmptyStore

AllFrames(cs) ==
  \A i \in 1..Len(cs) :
    cs[i].tag = "Ok" /\ cs[i].framed /\ cs[i].error = NoneVal /\ cs[i].text = NoneVal
\* choices[0].delta.content of a frame, "" for a frame that has none
FrameText(item) ==
  IF item.done \/ item.content = NoneVal THEN "" ELSE item.content
\* the text deltas of the first n items put together
DeltasOf(cs, n) == Concat([i \in 1..n |-> FrameText(cs[i])])

\* C23: when every chunk handed to handle_streaming_response is one SSE
\* frame, the result is the concatenation in arrival order of the text
\* deltas of the frames that have one; [DONE] frames and frames without a
\* text delta contribute nothing and raise no error.
C23_FramesConcatenateDeltas ==
  (caller = "query" /\ stream_responses /\ AllFrames(chunks))
  => /\ err = NoErr
     /\ pc = "streaming" => response = DeltasOf(chunks, Position - 1)
     /\ pc = "insert" => response = DeltasOf(chunks, Len(chunks))
     /\ (Returned /\ invocations >= 1)
          => result = OkResult(DeltasOf(chunks, Len(chunks)))

\* the stream role-only frame, "Test", " ", "response", [DONE] returned
C23_Witness ==
  /\ Returned /\ invocations = 1
  /\ chunks = <<RoleOnly, Delta("Test"), Delta(" "), Delta("response"), Done>>
  /\ result = OkResult("Test response")

\* the item is a frame whose rest cannot be parsed as JSON
IsMalformed(item) ==
  item.tag = "Ok" /\ item.framed /\ ~item.done /\ item.text # NoneVal

\* C27: a malformed frame in the stream terminates the streaming query
\* with a StreamError at that frame; it is never skipped while the query
\* goes on to return Ok.  (Stated for a frame whose JSON cannot be parsed.)
C27_MalformedFrameIsStreamError ==
  \A i \in 1..Len(chunks) :
    (/\ caller = "query" /\ stream_responses
     /\ IsMalformed(chunks[i])
     /\ \A j \in 1..(i - 1) : ~IsError(chunks[j]))
    => /\ pc = "streaming" => Position <= i
       /\ pc # "insert"
       /\ (Returned /\ invocations >= 1)
            => (result.tag = "Retry" /\ err.kind = "Stream" /\ err.at = i)

(* ------------- api/openai.rs, api/gemini.rs: HTTP statuses ------------ *)
Backends == {"openai", "gemini"}
Methods == {"send_query", "send_streaming_query", "validate_key"}
\* the statuses a server answers with
Statuses == {200, 201, 204, 400, 401, 403, 404, 429, 500, 503}
\* the texts of a response's body
Bodies == {"", "quota exceeded"}

\* StatusCode::is_success: 200..=299
is_success(status) == status \in 200..299

ApiOk == [kind |-> "Ok", text |-> ""]
InvalidKey == [kind |-> "Api.InvalidKey", text |-> ""]
RateLimit == [kind |-> "Api.RateLimit", text |-> ""]
Other(text) == [kind |-> "Api.Other", text |-> text]

\* validate_key of both clients: match response.status().as_u16()
ValidateKeyReply(status, body) ==
  IF status = 200 THEN ApiOk
  ELSE IF status = 401 THEN InvalidKey
  ELSE IF status = 429 THEN RateLimit
  ELSE Other(body)

\* OpenAIClient::send_query and send_streaming_query, up to the status
\* check: a success status goes on to the body
OpenAIReply(status, body) ==
  IF is_success(status) THEN ApiOk
  ELSE IF status = 401 THEN InvalidKey
  ELSE IF status = 429 THEN RateLimit
  ELSE Other(body)

\* GeminiClient::send_query and send_streaming_query, up to the status
\* check: every status that is no success gives Other(error_text)
GeminiReply(status, body) ==
  IF is_success(status) THEN ApiOk ELSE Other(body)

\* what the method of the backend's client returns for the response
StatusReply(backend, method, status, body) ==
  IF method = "validate_key" THEN ValidateKeyReply(status, body)
  ELSE IF backend = "openai" THEN OpenAIReply(status, body)
  ELSE GeminiReply(status, body)

\* a client has sent its request and the server has answered
InitApi ==
  /\ now = 0
  /\ CacheNew(1, TicksPerSec)
  /\ max_retries = 0 /\ initial_delay = 0 /\ max_delay = 0 /\ checkedSleep = FALSE
  /\ stream_responses = FALSE
  /\ pc = "idle" /\ caller = "direct"
  /\ NoCall
  /\ \E b \in Backends, m \in Methods, st \in Statuses, t \in Bodies :
       http = [backend |-> b, method |-> m, status |-> st, body |-> t,
               reply |-> NoReply]
  /\ NoWire

\* the method looks at the status and returns
Respond ==
  /\ http.backend # ""
  /\ http.reply = NoReply
  /\ http' = [http EXCEPT !.reply =
                StatusReply(http.backend, http.method, http.status, http.body)]
  /\ UNCHANGED <<now, cacheVars, confVars, callVars, wireVars>>

NextApi == Respond

SpecApi == InitApi /\ [][NextApi]_vars

\* C16: for both backends and each of send_query, send_streaming_query and
\* validate_key, a 401 gives ApiError::InvalidKey, a 429 gives
\* ApiError::RateLimit, and every other status outside 2xx gives
\* ApiError::Other with the body's text.
C16_StatusMapping ==
  http.reply # NoReply
  => /\ http.status = 401 => http.reply = InvalidKey
     /\ http.status = 429 => http.reply = RateLimit
     /\ (~is_success(http.status) /\ http.status \notin {401, 429})
          => http.reply = Other(http.body)

(* --------- api/openai.rs: the body of a streaming response ------------ *)
\* a streamed body holds at most MaxFrames frames
MaxFrames == 2

\* The payloads of the frames a server sends: the ones of
\* test_process_stream_chunk
FramePayloads ==
  {Delta("Hello"), Delta(" World"), RoleOnly, Done, ErrorFrame("Stream error")}

\* The bytes of a body, in units: the prefix "data: ", the first and the
\* second half of a frame's payload, and the line feed.  The payload x of a
\* frame can be read off its bytes only when both halves are there.
NoPayload == Item("", FALSE, FALSE, NoneVal, NoneVal, NoneVal, "")
Prefix == [part |-> "data: ", of |-> NoPayload]
LineFeed == [part |-> "LF", of |-> NoPayload]
Half(n, x) == [part |-> IF n = 1 THEN "first half" ELSE "second half", of |-> x]
\* "data: <payload>\n\n"
Encode(x) == <<Prefix, Half(1, x), Half(2, x), LineFeed, LineFeed>>

RECURSIVE EncodeAll(_)
\* the body made of the frames fs
EncodeAll(fs) == IF fs = <<>> THEN <<>> ELSE Encode(Head(fs)) \o EncodeAll(Tail(fs))

\* the bodies a server sends: 1..MaxFrames frames
StreamBodies ==
  {EncodeAll(fs) : fs \in UNION {[1..n -> FramePayloads] : n \in 1..MaxFrames}}

\* the index of the first line feed of s, 0 when it has none
FirstLineFeed(s) ==
  IF \E i \in 1..Len(s) : s[i] = LineFeed
  THEN CHOOSE i \in 1..Len(s) : s[i] = LineFeed /\ \A j \in 1..(i - 1) : s[j] # LineFeed
  ELSE 0

RECURSIVE lines(_)
\* str::lines: the pieces between line feeds, a last piece without a line
\* feed included, an empty one after the last line feed not
lines(s) ==
  IF s = <<>> THEN <<>>
  ELSE IF FirstLineFeed(s) = 0 THEN <<s>>
  ELSE <<SubSeq(s, 1, FirstLineFeed(s) - 1)>>
         \o lines(SubSeq(s, FirstLineFeed(s) + 1, Len(s)))

\* serde_json::from_str(data) succeeds: data is one whole payload
Parses(data) ==
  /\ Len(data) = 2
  /\ data[1] = Half(1, data[1].of)
  /\ data[2] = Half(2, data[1].of)

\* what process_stream_chunk returns
OkNone == [kind |-> "None", text |-> ""]
OkSome(t) == [kind |-> "Some", text |-> t]

RECURSIVE ProcessLines(_, _)
\* the `for line in text.lines()` loop of process_stream_chunk and its
\* return, `content` being the text pushed so far
ProcessLines(ls, content) ==
  IF ls = <<>> THEN (IF content = "" THEN OkNone ELSE OkSome(content))
  ELSE IF Head(ls) = <<>> \/ Head(Head(ls)) # Prefix
  THEN ProcessLines(Tail(ls), content)
  ELSE IF ~Parses(Tail(Head(ls))) \/ Head(ls)[2].of.done
  THEN ProcessLines(Tail(ls), content)
  ELSE IF Head(ls)[2].of.error # NoneVal
  THEN Other(Head(ls)[2].of.error)
  ELSE IF Head(ls)[2].of.content # NoneVal
  THEN ProcessLines(Tail(ls), content \o Head(ls)[2].of.content)
  ELSE ProcessLines(Tail(ls), content)

\* process_stream_chunk, but only the first line of the chunk is looked at
process_stream_chunk_FirstLineMutant(chunk) ==
  ProcessLines(IF lines(chunk) = <<>> THEN <<>> ELSE <<Head(lines(chunk))>>, "")
\* OpenAIClient::process_stream_chunk(chunk)
process_stream_chunk(chunk) == ProcessLines(lines(chunk), "")

\* the map and filter_map of send_streaming_query: the items the stream
\* yields for what process_stream_chunk returned
Yield(out) ==
  IF out.kind = "Api.Other" THEN <<ErrItem("Api.Other", out.text)>>
  ELSE IF out.kind = "Some" /\ out.text # "" THEN <<Plain(out.text)>>
  ELSE <<>>

\* the stream has yielded an Err item, at which handle_streaming_response
\* returns and drops the stream
Dropped == \E i \in 1..Len(yielded) : yielded[i].tag = "Err"

\* send_streaming_query returns the stream of a body
InitSse ==
  /\ now = 0
  /\ CacheNew(1, TicksPerSec)
  /\ max_retries = 0 /\ initial_delay = 0 /\ max_delay = 0 /\ checkedSleep = FALSE
  /\ stream_responses = TRUE
  /\ pc = "idle" /\ caller = "direct"
  /\ NoCall
  /\ http = NoHttp
  /\ wire \in StreamBodies
  /\ unread = wire
  /\ last = NoRead
  /\ yielded = <<>>

\* bytes_stream yields the next n bytes of the body as one chunk, and the
\* stream of send_streaming_query what process_stream_chunk makes of it
Read(n) ==
  /\ wire # <<>>
  /\ ~Dropped
  /\ n <= Len(unread)
  /\ unread' = SubSeq(unread, n + 1, Len(unread))
  /\ last' = [chunk |-> SubSeq(unread, 1, n),
              out |-> process_stream_chunk(SubSeq(unread, 1, n))]
  /\ yielded' = yielded \o Yield(process_stream_chunk(SubSeq(unread, 1, n)))
  /\ UNCHANGED <<now, cacheVars, confVars, callVars, http, wire>>

NextSse == \E n \in 1..Len(wire) : Read(n)

SpecSse == InitSse /\ [][NextSse]_vars

(* ------------------- claims on the streamed body ---------------------- *)
\* the chunk is made of whole frames, one or more
WholeFrames(chunk) ==
  /\ chunk # <<>>
  /\ Len(chunk) % Len(Encode(Done)) = 0
  /\ \A j \in 0..(Len(chunk) \div Len(Encode(Done)) - 1) :
       /\ chunk[j * Len(Encode(Done)) + 2].of \in FramePayloads
       /\ SubSeq(chunk, j * Len(Encode(Done)) + 1, (j + 1) * Len(Encode(Done)))
            = Encode(chunk[j * Len(Encode(Done)) + 2].of)
\* the payloads of the frames of such a chunk
FramesOf(chunk) ==
  [j \in 1..(Len(chunk) \div Len(Encode(Done))) |->
     chunk[(j - 1) * Len(Encode(Done)) + 2].of]
\* the first error payload among the frames fs is the i-th
FirstError(fs, i) ==
  /\ i \in 1..Len(fs)
  /\ fs[i].error # NoneVal
  /\ \A j \in 1..(i - 1) : fs[j].error = NoneVal

\* C24: for a physical chunk made of several complete "data: " frames,
\* process_stream_chunk returns the concatenation of the text deltas of all
\* of them in order, None when no frame carries text, and an error as soon
\* as a frame carries an error payload.
C24_ChunkOfWholeFrames ==
  (last # NoRead /\ WholeFrames(last.chunk))
  => LET fs == FramesOf(last.chunk) IN
       /\ (\E i \in 1..Len(fs) : fs[i].error # NoneVal)
            => \E i \in 1..Len(fs) : FirstError(fs, i) /\ last.out = Other(fs[i].error)
       /\ (\A i \in 1..Len(fs) : fs[i].error = NoneVal)
            => /\ DeltasOf(fs, Len(fs)) = "" => last.out = OkNone
               /\ DeltasOf(fs, Len(fs)) # "" => last.out = OkSome(DeltasOf(fs, Len(fs)))

\* two frames read as one chunk: "Hello" and " World" give "Hello World"
C24_Witness ==
  /\ last.chunk = Encode(Delta("Hello")) \o Encode(Delta(" World"))
  /\ last.out = OkSome("Hello World")
  /\ yielded = <<Plain("Hello World")>>

\* what a consumer makes of the items of a stream: the first error, or the
\* texts put together
Outcome(items) ==
  IF \E i \in 1..Len(items) : items[i].tag = "Err"
  THEN [kind |-> "Err",
        text |-> items[CHOOSE i \in 1..Len(items) :
                         /\ items[i].tag = "Err"
                         /\ \A j \in 1..(i - 1) : items[j].tag # "Err"].error]
  ELSE [kind |-> "Ok", text |-> Concat([i \in 1..Len(items) |-> items[i].text])]

\* C25: the text the streaming path produces does not depend on how the
\* transport cuts the body into chunks: once the body is read, the stream
\* has yielded what it yields when the whole body arrives in one read.
C25_ChunkingIndependent ==
  (wire # <<>> /\ (unread = <<>> \/ Dropped))
  => Outcome(yielded) = Outcome(Yield(process_stream_chunk(wire)))

====
